---------------------------- MODULE Spec2Model ----------------------------
(***************************************************************************)
(* A model of the birkhoff package: the Hopcroft-Karp matching engine of   *)
(* src/birkhoff/matching.py and the Birkhoff-von Neumann peeling loop of   *)
(* src/birkhoff.py.                                                        *)
(*                                                                         *)
(* Numbers.  A doubly stochastic matrix is represented by its numerators   *)
(* over a common denominator K: an entry x stands for x/K, the row and     *)
(* column sums are K, and a coefficient q stands for q/K.  Arithmetic is   *)
(* exact; the rounding of IEEE doubles is not modelled.                    *)
(*                                                                         *)
(* Indices are 0-based as in the source: a matrix is a function            *)
(* [0..m-1 -> [0..n-1 -> Int]], the left vertices of the bipartite graph   *)
(* are 0..m-1 and its right vertices m..m+n-1.                             *)
(***************************************************************************)
EXTENDS Integers, Sequences, FiniteSets, TLC

\* ------------------------------------------------------------------ bounds
\* Largest dimension of the matrices handed to the decomposition.
MaxN == 3
\* Largest common row/column sum K of the doubly stochastic inputs.
MaxK == 2
\* Largest total of the entries of the arbitrary (m x n) inputs.
MaxTotal == 3
\* Largest number of vertices of the graphs handed directly to
\* hopcroft_karp_matching.
MaxVertices == 6

\* --------------------------------------------------------- program constants
\* Python's None: a key of `distances` and the partner of an unmatched vertex.
NONE == -1
\* float('inf'): larger than every distance a search can assign.
INFINITY == 1000000
\* np.finfo(float).eps * 10 lies strictly between 0 and one unit 1/K of the
\* representation, so abs(x) < TOLERANCE is abs(x) < 1 on numerators.
TOLERANCE == 1

\* ------------------------------------------------------------------ helpers
Abs(x) == IF x < 0 THEN -x ELSE x

Min(a, b) == IF a <= b THEN a ELSE b

SetMin(s) == CHOOSE x \in s : \A y \in s : x <= y

SetMax(s) == CHOOSE x \in s : \A y \in s : y <= x

RECURSIVE SumSet(_, _)
\* The sum of f[x] over x in s.
SumSet(f, s) ==
    IF s = {} THEN 0
    ELSE LET x == CHOOSE y \in s : TRUE IN f[x] + SumSet(f, s \ {x})

\* The elements of a set of integers in ascending order: the order in which
\* CPython iterates a set or an adjacency dictionary of small integers.
AscSeq(s) ==
    CHOOSE r \in
      {[k \in 1..Cardinality(t) |->
          CHOOSE x \in t : Cardinality({y \in t : y < x}) = k - 1] : t \in {s}} :
      TRUE

Range(seq) == {seq[k] : k \in 1..Len(seq)}

\* d[k] = x on a Python dictionary.
SetItem(d, k, x) == (k :> x) @@ d

\* Below, CHOOSE r \in {F(x) : x \in {e}} : TRUE in an operator and
\* \E x \in {e} : F(x) in an action stand for F(e) with x bound to the value
\* of e: a local variable of the code, computed once.

\* ----------------------------------------------------------------- matrices
NumRows(A) == Cardinality(DOMAIN A)

NumCols(A) == Cardinality(DOMAIN A[0])

Cells(A) == {<<i, j>> : i \in DOMAIN A, j \in DOMAIN A[0]}

zeros(m, n) == [i \in 0..(m - 1) |-> [j \in 0..(n - 1) |-> 0]]

RowSum(A, i) == SumSet(A[i], DOMAIN A[i])

ColSum(A, j) == SumSet([i \in DOMAIN A |-> A[i][j]], DOMAIN A)

\* np.all(S == 0)
AllZero(A) == \A c \in Cells(A) : A[c[1]][c[2]] = 0

NonZeroCells(A) == {c \in Cells(A) : A[c[1]][c[2]] # 0}

\* ------------------------------------------------------- bipartite adapter
\* to_pattern_matrix(D): ones exactly where D has a nonzero entry.
to_pattern_matrix(A) ==
    [i \in DOMAIN A |-> [j \in DOMAIN A[i] |-> IF A[i][j] # 0 THEN 1 ELSE 0]]

\* to_bipartite_matrix(A): the block matrix [[0, A], [A.T, 0]].
to_bipartite_matrix(A) ==
    LET m == NumRows(A)
        n == NumCols(A)
    IN  [u \in 0..(m + n - 1) |->
           [v \in 0..(m + n - 1) |->
              IF u < m /\ v >= m THEN A[u][v - m]
              ELSE IF u >= m /\ v < m THEN A[v][u - m]
              ELSE 0]]

\* from_numpy_matrix(X): the graph on the vertices 0..len(X)-1 with an edge
\* wherever X is nonzero.  G[v] is the adjacency of v in iteration order.
from_numpy_matrix(X) ==
    [u \in DOMAIN X |-> AscSeq({v \in DOMAIN X : X[u][v] # 0})]

Neighbours(g, v) == Range(g[v])

RECURSIVE two_colour(_, _, _, _)
\* The search of networkx's bipartite colouring from the vertices of
\* `frontier`, which carry colour c: their uncoloured neighbours get 1 - c.
two_colour(g, frontier, c, col) ==
    IF frontier = {} THEN col
    ELSE CHOOSE r \in
           {two_colour(g, nx.frontier, 1 - c, nx.col) :
              nx \in {LET next == UNION {Neighbours(g, v) : v \in frontier}
                                     \ (col.one \cup col.zero)
                      IN  [frontier |-> next,
                           col |-> IF c = 1 THEN [col EXCEPT !.zero = @ \cup next]
                                            ELSE [col EXCEPT !.one = @ \cup next]]}} :
           TRUE

RECURSIVE bipartite_color(_, _, _)
\* networkx's bipartite colouring: every component with an edge is searched
\* from its first vertex, coloured 1; the isolated vertices are coloured 0.
\* `todo` are the vertices still to look at, taken in ascending order.
bipartite_color(g, todo, col) ==
    IF todo = {}
    THEN [col EXCEPT !.zero = @ \cup {v \in DOMAIN g : g[v] = <<>>}]
    ELSE CHOOSE r \in
           {bipartite_color(g, nx.todo, nx.col) :
              nx \in {LET v == SetMin(todo)
                      IN  [todo |-> todo \ {v},
                           col |-> IF v \in col.one \cup col.zero \/ g[v] = <<>>
                                   THEN col
                                   ELSE two_colour(g, {v}, 1,
                                            [col EXCEPT !.one = @ \cup {v}])]}} :
           TRUE

\* left, right = bipartite_sets(g): the vertices coloured 1 and those coloured 0.
bipartite_sets(g) ==
    LET col == bipartite_color(g, DOMAIN g, [one |-> {}, zero |-> {}])
    IN  <<col.one, col.zero>>

\* to_permutation_matrix(dimension, matches): P[u, v] = 1 for every item.
to_permutation_matrix(dimension, matches) ==
    [u \in 0..(dimension - 1) |->
       [v \in 0..(dimension - 1) |->
          IF u \in DOMAIN matches /\ matches[u] = v THEN 1 ELSE 0]]

\* Faulty variant of reindex: the right vertices keep their numbers n..2n-1.
reindex_no_mod(M, n) == [u \in {w \in DOMAIN M : w < n} |-> M[u]]

\* M = {u: v % n for u, v in M.items() if u < n}
reindex(M, n) == [u \in {w \in DOMAIN M : w < n} |-> M[u] % n]

\* --------------------------------------------------------- matching engine
\* distances[v] + 1 on a float that may be infinite.
Plus1(d) == IF d = INFINITY THEN INFINITY ELSE d + 1

\* Faulty variant of bfs_init: the test `leftmatches[v] is None` is dropped and
\* every left vertex, matched or not, starts the search at distance 0.
bfs_init_all_free(left_, lm, dist, q) ==
    [distances |-> [v \in left_ |-> 0] @@ dist, queue |-> q \o AscSeq(left_)]

\* The first loop of breadth_first_search: unmatched left vertices get
\* distance 0 and are enqueued in iteration order, matched ones get distance
\* infinity.
bfs_init(left_, lm, dist, q) ==
    [distances |-> [v \in left_ |-> IF lm[v] = NONE THEN 0 ELSE INFINITY] @@ dist,
     queue |-> q \o AscSeq({v \in left_ : lm[v] = NONE})]

RECURSIVE bfs_scan_no_enqueue(_, _, _, _)
\* Faulty variant of bfs_scan: the partner is labelled but never enqueued, so
\* the layering stops after the first layer.
bfs_scan_no_enqueue(nbrs, v, rm, st) ==
    IF nbrs = <<>> THEN st
    ELSE CHOOSE r \in
           {bfs_scan_no_enqueue(Tail(nbrs), v, rm, nx) :
              nx \in {LET w == rm[Head(nbrs)]
                      IN  IF st.distances[w] = INFINITY
                          THEN [distances |-> SetItem(st.distances, w,
                                                      Plus1(st.distances[v])),
                                queue |-> st.queue]
                          ELSE st}} :
           TRUE

RECURSIVE bfs_scan(_, _, _, _)
\* for u in G[v]: label and enqueue the partner of u if it is still
\* unlabelled.  st = [distances, queue].
bfs_scan(nbrs, v, rm, st) ==
    IF nbrs = <<>> THEN st
    ELSE CHOOSE r \in
           {bfs_scan(Tail(nbrs), v, rm, nx) :
              nx \in {LET w == rm[Head(nbrs)]
                      IN  IF st.distances[w] = INFINITY
                          THEN [distances |-> SetItem(st.distances, w,
                                                      Plus1(st.distances[v])),
                                queue |-> Append(st.queue, w)]
                          ELSE st}} :
           TRUE

RECURSIVE bfs_loop(_, _, _)
\* while len(queue) > 0: pop the head and scan it if it lies before the layer
\* of the first unmatched right vertex.  st = [distances, queue].
bfs_loop(g, rm, st) ==
    IF Len(st.queue) = 0 THEN st
    ELSE CHOOSE r \in
           {bfs_loop(g, rm, nx) :
              nx \in {LET v == Head(st.queue)
                          popped == [distances |-> st.distances,
                                     queue |-> Tail(st.queue)]
                      IN  IF st.distances[v] < st.distances[NONE]
                          THEN bfs_scan(g[v], v, rm, popped)
                          ELSE popped}} :
           TRUE

\* breadth_first_search(): the new distances and queue, and the value returned.
breadth_first_search(g, left_, lm, rm, dist, q) ==
    CHOOSE res \in
      {[distances |-> r.distances, queue |-> r.queue,
        found |-> r.distances[NONE] # INFINITY] :
         r \in {bfs_loop(g, rm, [distances |-> SetItem(i.distances, NONE, INFINITY),
                                 queue |-> i.queue]) :
                  i \in {bfs_init(left_, lm, dist, q)}}} :
      TRUE

RECURSIVE depth_first_search(_, _, _)
RECURSIVE dfs_scan(_, _, _, _)
\* depth_first_search(v) on the search state st = [leftmatches, rightmatches,
\* distances]: the state it leaves and the value it returns.
depth_first_search(g, st, v) ==
    IF v # NONE THEN dfs_scan(g, st, v, 1)
    ELSE [ok |-> TRUE, leftmatches |-> st.leftmatches,
          rightmatches |-> st.rightmatches, distances |-> st.distances]

\* for u in g[v], from the k-th neighbour on.
dfs_scan(g, st, v, k) ==
    IF k > Len(g[v])
    THEN [ok |-> FALSE, leftmatches |-> st.leftmatches,
          rightmatches |-> st.rightmatches,
          distances |-> SetItem(st.distances, v, INFINITY)]
    ELSE LET u == g[v][k]
         IN  IF st.distances[st.rightmatches[u]] = Plus1(st.distances[v])
             THEN LET r == depth_first_search(g, st, st.rightmatches[u])
                  IN  IF r.ok
                      THEN [ok |-> TRUE,
                            leftmatches |-> SetItem(r.leftmatches, v, u),
                            rightmatches |-> SetItem(r.rightmatches, u, v),
                            distances |-> r.distances]
                      ELSE dfs_scan(g, r, v, k + 1)
             ELSE dfs_scan(g, st, v, k + 1)

\* Faulty variant of strip_none: the entries matched to None are kept.
strip_none_kept(d) == d

\* {k: v for k, v in d.items() if v is not None}
strip_none(d) == [k \in {x \in DOMAIN d : d[x] # NONE} |-> d[k]]

\* The vertices a dictionary of partners gives a partner other than None.
Matched(d) == {k \in DOMAIN d : d[k] # NONE}

\* dict(leftmatches.items() | rightmatches.items())
combine(lm, rm) ==
    LET items == {<<k, lm[k]>> : k \in DOMAIN lm} \cup {<<k, rm[k]>> : k \in DOMAIN rm}
    IN  [k \in {it[1] : it \in items} |-> (CHOOSE it \in items : it[1] = k)[2]]

\* ------------------------------------------------------------------- inputs
RECURSIVE Compositions(_, _)
\* The sequences of `len` nonnegative integers that sum to k.
Compositions(len, k) ==
    IF len = 0 THEN (IF k = 0 THEN {<<>>} ELSE {})
    ELSE UNION {{<<a>> \o r : r \in Compositions(len - 1, k - a)} : a \in 0..k}

\* The m x n matrix whose rows, one after the other, make up the sequence s.
Reshape(s, m, n) == [i \in 0..(m - 1) |-> [j \in 0..(n - 1) |-> s[i * n + j + 1]]]

\* The m x n matrices of nonnegative integers whose entries total at most t.
MatricesUpTo(m, n, t) ==
    {Reshape(s, m, n) : s \in UNION {Compositions(m * n, k) : k \in 0..t}}

\* The n x n matrices of nonnegative integers whose rows and columns sum to k:
\* n - 1 rows of sum k that stay within the column sums, and the row that
\* completes them.
DoublyStochastic(n, k) ==
    LET top == {p \in [0..(n - 2) -> Compositions(n, k)] :
                   \A j \in 1..n : SumSet([i \in 0..(n - 2) |-> p[i][j]], 0..(n - 2)) <= k}
    IN  {[i \in 0..(n - 1) |->
            [j \in 0..(n - 1) |->
               IF i < n - 1 THEN p[i][j + 1]
               ELSE k - SumSet([x \in 0..(n - 2) |-> p[x][j + 1]], 0..(n - 2))]] :
         p \in top}

\* Whether A is a doubly stochastic matrix over the denominator RowSum(A, 0).
IsDoublyStochastic(A) ==
    /\ NumRows(A) = NumCols(A)
    /\ RowSum(A, 0) > 0
    /\ \A c \in Cells(A) : A[c[1]][c[2]] >= 0
    /\ \A i \in DOMAIN A : RowSum(A, i) = RowSum(A, 0)
    /\ \A j \in DOMAIN A[0] : ColSum(A, j) = RowSum(A, 0)

\* 6 * D for the matrix D of test_birkhoff_von_neumann_decomposition.
TestD ==
    LET rows == << <<1, 4, 0, 1>>, <<2, 1, 3, 0>>, <<2, 1, 1, 2>>, <<1, 0, 2, 3>> >>
    IN  [i \in 0..3 |-> [j \in 0..3 |-> rows[i + 1][j + 1]]]

\* Every bipartite graph with a left side of m and a right side of n vertices,
\* by its biadjacency matrix.
Biadjacencies(m, n) == [0..(m - 1) -> [0..(n - 1) -> {0, 1}]]

\* ------------------------------------------------------ decomposition driver
\* Faulty variant of is_square: only matrices with more rows than columns
\* are rejected.
is_square_or_wide(m, n) == m <= n

\* if m != n: raise ValueError
is_square(m, n) == m = n

\* Faulty variant of copy: S = D, the same array under a second name.
copy_alias(h, ref) == [heap |-> h, ref |-> ref]

\* D.copy(): a fresh array holding the entries of heap[ref].
copy(h, ref) == [heap |-> Append(h, h[ref]), ref |-> Len(h) + 1]

\* The positions (i, j) of `indices` with P[i, j] == 1.
ones_of(P, indices) == {c \in indices : P[c[1]][c[2]] = 1}

\* Faulty variant of min_covered: the minimum over every position of
\* `indices`, covered by P or not.
min_uncovered(A, P, indices) == SetMin({A[c[1]][c[2]] : c \in indices})

\* Faulty variant of min_covered: the largest covered entry.
max_covered(A, P, indices) ==
    SetMax({A[c[1]][c[2]] : c \in ones_of(P, indices)})

\* q = min(S[i, j] for (i, j) in indices if P[i, j] == 1)
min_covered(A, P, indices) ==
    SetMin({A[c[1]][c[2]] : c \in ones_of(P, indices)})

\* Faulty variant of subtract_scaled: nothing is taken off the matrix.
subtract_nothing(A, q, P) == A

\* S -= q * P
subtract_scaled(A, q, P) ==
    [i \in DOMAIN A |-> [j \in DOMAIN A[i] |-> A[i][j] - q * P[i][j]]]

\* Faulty variant of clamp_near_zero: a tolerance of two units, which rounds
\* the entries of one unit down to 0.
clamp_coarse(A) ==
    [i \in DOMAIN A |->
       [j \in DOMAIN A[i] |-> IF Abs(A[i][j]) < 2 * TOLERANCE THEN 0 ELSE A[i][j]]]

\* S[np.abs(S) < TOLERANCE] = 0.0
clamp_near_zero(A) ==
    [i \in DOMAIN A |->
       [j \in DOMAIN A[i] |-> IF Abs(A[i][j]) < TOLERANCE THEN 0 ELSE A[i][j]]]

\* list(zip(coefficients, permutations))
zip(cs, ps) == [k \in 1..Min(Len(cs), Len(ps)) |-> <<cs[k], ps[k]>>]

\* -------------------------------------------------------------------- state
VARIABLES
    entry,              \* the function called: "bvn" or "hk"
    pc,                 \* the position of the call
    heap,               \* the NumPy arrays, by reference
    D,                  \* the reference of the caller's matrix
    S,                  \* the reference of the working matrix (0: unbound)
    coefficients,       \* the coefficients found so far
    permutations,       \* the permutation matrices found so far
    result,             \* the list returned by the decomposition
    raised,             \* the exception raised, or "none"
    G,                  \* the graph of the current matching call
    left,               \* its vertices coloured 1
    right,              \* its vertices coloured 0
    leftmatches,        \* partner of every left vertex, or NONE
    rightmatches,       \* partner of every right vertex, or NONE
    distances,          \* layer of every left vertex and of NONE
    queue,              \* the queue of breadth_first_search
    num_matched_pairs,  \* the counter of successful augmentations
    todo,               \* the left vertices the augmentation loop has yet to visit
    matches,            \* the dictionary returned by hopcroft_karp_matching
    phases,             \* history: the calls of breadth_first_search that returned true
    phase_start         \* history: the matched left vertices when the last of them returned

engine == <<G, left, right, leftmatches, rightmatches, distances, queue,
            num_matched_pairs, todo, matches, phases, phase_start>>

driver == <<heap, D, S, coefficients, permutations, result, raised>>

vars == <<entry, pc, driver, engine>>

EngineUnset ==
    /\ left = {} /\ right = {}
    /\ leftmatches = <<>> /\ rightmatches = <<>>
    /\ distances = <<>> /\ queue = <<>>
    /\ num_matched_pairs = 0 /\ todo = <<>> /\ matches = <<>>
    /\ phases = 0 /\ phase_start = 0

DriverUnset ==
    /\ S = 0 /\ coefficients = <<>> /\ permutations = <<>>
    /\ result = <<>> /\ raised = "none"

\* A call of birkhoff_von_neumann_decomposition(D) or of
\* hopcroft_karp_matching(G), about to run.
Init ==
    /\ DriverUnset
    /\ EngineUnset
    /\ \/ /\ entry = "bvn" /\ pc = "bvn_call"
          /\ \/ \E n \in 1..MaxN, k \in 1..MaxK :
                   \E A \in DoublyStochastic(n, k) : heap = <<A>>
             \/ \E m \in 1..MaxN, n \in 1..MaxN :
                   \E A \in MatricesUpTo(m, n, MaxTotal) : heap = <<A>>
             \/ heap = <<TestD>>
          /\ D = 1
          /\ G = <<>>
       \/ /\ entry = "hk" /\ pc = "hk_call"
          /\ heap = <<>> /\ D = 0
          /\ \E m \in 1..(MaxVertices - 1) :
                \E n \in 1..(MaxVertices - m) :
                \E W \in Biadjacencies(m, n) :
                   G = from_numpy_matrix(to_bipartite_matrix(W))

\* Lines 151-159: the shape check and the private copy.
Call ==
    /\ pc = "bvn_call"
    /\ IF is_square(NumRows(heap[D]), NumCols(heap[D]))
       THEN LET c == copy(heap, D)
            IN  /\ heap' = c.heap
                /\ S' = c.ref
                /\ coefficients' = <<>>
                /\ permutations' = <<>>
                /\ pc' = "while"
                /\ UNCHANGED raised
       ELSE /\ raised' = "ValueError"
            /\ pc' = "raised"
            /\ UNCHANGED <<heap, S, coefficients, permutations>>
    /\ UNCHANGED <<entry, D, result, engine>>

\* Lines 160 and 199: the loop ends on the zero matrix and the pairs are returned.
Return ==
    /\ pc = "while"
    /\ AllZero(heap[S])
    /\ result' = zip(coefficients, permutations)
    /\ pc' = "returned"
    /\ UNCHANGED <<entry, heap, D, S, coefficients, permutations, raised, engine>>

\* Lines 160-173: the graph of the pattern of S is built and handed to the engine.
BuildGraph ==
    /\ pc = "while"
    /\ ~AllZero(heap[S])
    /\ \E A \in {to_pattern_matrix(heap[S])} :
       \E X \in {to_bipartite_matrix(A)} :
          G' = from_numpy_matrix(X)
    /\ pc' = "hk_call"
    /\ UNCHANGED <<entry, driver, left, right, leftmatches, rightmatches,
                   distances, queue, num_matched_pairs, todo, matches,
                   phases, phase_start>>

\* matching.py lines 98-106: the search state is initialised.
HKInit ==
    /\ pc = "hk_call"
    /\ \E lr \in {bipartite_sets(G)} :
           /\ left' = lr[1]
           /\ right' = lr[2]
           /\ leftmatches' = [v \in lr[1] |-> NONE]
           /\ rightmatches' = [v \in lr[2] |-> NONE]
    /\ distances' = <<>>
    /\ queue' = <<>>
    /\ num_matched_pairs' = 0
    /\ phases' = 0
    /\ phase_start' = 0
    /\ pc' = "bfs"
    /\ UNCHANGED <<entry, driver, G, todo, matches>>

\* matching.py line 107: one call of breadth_first_search.
Bfs ==
    /\ pc = "bfs"
    /\ \E r \in {breadth_first_search(G, left, leftmatches, rightmatches,
                                      distances, queue)} :
           /\ distances' = r.distances
           /\ queue' = r.queue
           /\ pc' = IF r.found THEN "dfs" ELSE "strip"
           /\ todo' = IF r.found THEN AscSeq(left) ELSE todo
           /\ phases' = IF r.found THEN phases + 1 ELSE phases
           /\ phase_start' = IF r.found THEN Cardinality(Matched(leftmatches))
                                        ELSE phase_start
    /\ UNCHANGED <<entry, driver, G, left, right, leftmatches, rightmatches,
                   num_matched_pairs, matches>>

\* Faulty variant of DfsStep: the test `leftmatches[v] is None` is dropped and
\* the search starts from matched left vertices as well.
DfsStep_from_matched ==
    /\ pc = "dfs"
    /\ todo # <<>>
    /\ \E r \in {depth_first_search(G,
                    [leftmatches |-> leftmatches,
                     rightmatches |-> rightmatches,
                     distances |-> distances], Head(todo))} :
          /\ leftmatches' = r.leftmatches
          /\ rightmatches' = r.rightmatches
          /\ distances' = r.distances
          /\ num_matched_pairs' =
                IF r.ok THEN num_matched_pairs + 1 ELSE num_matched_pairs
    /\ todo' = Tail(todo)
    /\ UNCHANGED <<entry, pc, driver, G, left, right, queue, matches,
                   phases, phase_start>>

\* matching.py lines 108-111: one iteration of `for v in left`.
DfsStep ==
    /\ pc = "dfs"
    /\ todo # <<>>
    /\ LET v == Head(todo)
       IN  IF leftmatches[v] = NONE
           THEN \E r \in {depth_first_search(G,
                            [leftmatches |-> leftmatches,
                             rightmatches |-> rightmatches,
                             distances |-> distances], v)} :
                    /\ leftmatches' = r.leftmatches
                    /\ rightmatches' = r.rightmatches
                    /\ distances' = r.distances
                    /\ num_matched_pairs' =
                          IF r.ok THEN num_matched_pairs + 1 ELSE num_matched_pairs
           ELSE UNCHANGED <<leftmatches, rightmatches, distances, num_matched_pairs>>
    /\ todo' = Tail(todo)
    /\ UNCHANGED <<entry, pc, driver, G, left, right, queue, matches,
                   phases, phase_start>>

\* Faulty variant of ForDone: `if` in place of `while`, a single phase.
ForDone_single_phase ==
    /\ pc = "dfs"
    /\ todo = <<>>
    /\ pc' = "strip"
    /\ UNCHANGED <<entry, driver, engine>>

\* matching.py lines 107-108: the for loop is exhausted, back to the while test.
ForDone ==
    /\ pc = "dfs"
    /\ todo = <<>>
    /\ pc' = "bfs"
    /\ UNCHANGED <<entry, driver, engine>>

\* matching.py lines 113-123: the None entries are stripped and the two
\* dictionaries combined and returned.
Strip ==
    /\ pc = "strip"
    /\ leftmatches' = strip_none(leftmatches)
    /\ rightmatches' = strip_none(rightmatches)
    /\ matches' = combine(strip_none(leftmatches), strip_none(rightmatches))
    /\ pc' = IF entry = "hk" THEN "hk_returned" ELSE "peel"
    /\ UNCHANGED <<entry, driver, G, left, right, distances, queue,
                   num_matched_pairs, todo, phases, phase_start>>

\* Faulty variant of Peel: a matching that leaves a row uncovered is refused
\* with an error instead of being turned into a matrix.
Peel_require_perfect ==
    /\ pc = "peel"
    /\ LET m == NumRows(heap[D])
           n == NumCols(heap[D])
           indices == (0..(m - 1)) \X (0..(n - 1))
       IN  \E P \in {to_permutation_matrix(n, reindex(matches, n))} :
           IF Cardinality(ones_of(P, indices)) < n
           THEN /\ raised' = "ValueError"
                /\ pc' = "raised"
                /\ UNCHANGED <<heap, coefficients, permutations>>
           ELSE \E q \in {min_covered(heap[S], P, indices)} :
                    /\ coefficients' = Append(coefficients, q)
                    /\ permutations' = Append(permutations, P)
                    /\ heap' = [heap EXCEPT
                                  ![S] = clamp_near_zero(subtract_scaled(@, q, P))]
                    /\ pc' = "while"
                    /\ UNCHANGED raised
    /\ UNCHANGED <<entry, D, S, result, engine>>

\* Lines 183-198: the matching becomes a permutation matrix, its smallest
\* covered entry the coefficient, and q * P is taken off the working matrix.
Peel ==
    /\ pc = "peel"
    /\ LET m == NumRows(heap[D])
           n == NumCols(heap[D])
           indices == (0..(m - 1)) \X (0..(n - 1))
       IN  \E P \in {to_permutation_matrix(n, reindex(matches, n))} :
           IF ones_of(P, indices) = {}
           THEN \* min() of an empty sequence
                /\ raised' = "ValueError"
                /\ pc' = "raised"
                /\ UNCHANGED <<heap, coefficients, permutations>>
           ELSE \E q \in {min_covered(heap[S], P, indices)} :
                    /\ coefficients' = Append(coefficients, q)
                    /\ permutations' = Append(permutations, P)
                    /\ heap' = [heap EXCEPT
                                  ![S] = clamp_near_zero(subtract_scaled(@, q, P))]
                    /\ pc' = "while"
                    /\ UNCHANGED raised
    /\ UNCHANGED <<entry, D, S, result, engine>>

Next ==
    \/ Call
    \/ Return
    \/ BuildGraph
    \/ HKInit
    \/ Bfs
    \/ DfsStep
    \/ ForDone
    \/ Strip
    \/ Peel

Spec == Init /\ [][Next]_vars

\* The calls are sequential code: a step that can be taken is taken.
LiveSpec == Spec /\ WF_vars(Next)

\* --------------------------------------------------------------- properties
\* The call is a decomposition of a doubly stochastic matrix.
DSCall == entry = "bvn" /\ IsDoublyStochastic(heap[D])

\* The dimension n and the common row sum K of the caller's matrix.
Dim == NumCols(heap[D])

UnitSum == RowSum(heap[D], 0)

\* sum(c * P for c, P in pairs), entry by entry.
WeightedSum(pairs, n) ==
    [i \in 0..(n - 1) |->
       [j \in 0..(n - 1) |->
          SumSet([k \in DOMAIN pairs |-> pairs[k][1] * pairs[k][2][i][j]],
                 DOMAIN pairs)]]

\* Exactly one 1 in each row and in each column of P, and 0 elsewhere.
IsPermutationMatrix(P, n) ==
    /\ DOMAIN P = 0..(n - 1)
    /\ \A i \in 0..(n - 1) : DOMAIN P[i] = 0..(n - 1)
    /\ \A i, j \in 0..(n - 1) : P[i][j] \in {0, 1}
    /\ \A i \in 0..(n - 1) : Cardinality({j \in 0..(n - 1) : P[i][j] = 1}) = 1
    /\ \A j \in 0..(n - 1) : Cardinality({i \in 0..(n - 1) : P[i][j] = 1}) = 1

\* C1: for a doubly stochastic input, the weighted sum of the returned pairs
\* equals the input matrix entry by entry.
C1_Reconstruction ==
    (DSCall /\ pc = "returned") => WeightedSum(result, Dim) = heap[D]

C1_Witness == DSCall /\ pc = "returned" /\ Len(result) >= 3

\* C2: for a doubly stochastic input, the matching handed to every iteration
\* of the peeling loop covers all 2n vertices, pairing each with a neighbour,
\* and every matrix placed in the result is a permutation matrix.
C2_PerfectMatching ==
    DSCall =>
      /\ pc = "peel" =>
           /\ DOMAIN matches = 0..(2 * Dim - 1)
           /\ \A v \in DOMAIN matches :
                 matches[v] \in Neighbours(G, v) /\ matches[matches[v]] = v
      /\ \A k \in 1..Len(permutations) : IsPermutationMatrix(permutations[k], Dim)
      /\ \A k \in 1..Len(result) : IsPermutationMatrix(result[k][2], Dim)

C2_Witness ==
    DSCall /\ pc = "peel" /\ Dim >= 3 /\ Len(permutations) >= 2
           /\ DOMAIN matches = 0..(2 * Dim - 1)

\* C3: for a doubly stochastic input, every coefficient is strictly positive
\* and at most the row sum, and the returned coefficients sum to the row sum.
C3_Coefficients ==
    DSCall =>
      /\ \A k \in 1..Len(coefficients) :
            0 < coefficients[k] /\ coefficients[k] <= UnitSum
      /\ pc = "returned" =>
           /\ \A k \in 1..Len(result) : 0 < result[k][1] /\ result[k][1] <= UnitSum
           /\ SumSet([k \in DOMAIN result |-> result[k][1]], DOMAIN result) = UnitSum

C3_Witness == DSCall /\ pc = "returned" /\ Len(result) >= 2 /\ UnitSum >= 2

\* C4: for a doubly stochastic input the call returns, and at no point does
\* it hold more than n squared pairs.
C4_TerminatesWithinBound ==
    /\ (DSCall /\ pc = "bvn_call") ~> (pc = "returned")
    /\ [](DSCall => /\ Len(coefficients) <= Dim * Dim
                    /\ Len(permutations) <= Dim * Dim
                    /\ Len(result) <= Dim * Dim)

C4_Witness == DSCall /\ pc = "returned" /\ Len(result) >= 3 /\ Dim >= 3

\* The pairs {v, w} of a matching dictionary.
MatchedPairs(mt) == {{v, mt[v]} : v \in DOMAIN mt}

RECURSIVE BruteForceMaximum(_, _)
\* The largest size of a matching of g among the vertices of `avail`, found by
\* trying, for the first vertex that still has a neighbour, to leave it out
\* or to pair it with each neighbour.
BruteForceMaximum(g, avail) ==
    LET live == {v \in avail : Neighbours(g, v) \cap avail # {}}
    IN  IF live = {} THEN 0
        ELSE LET v == SetMin(live)
             IN  SetMax({BruteForceMaximum(g, avail \ {v})}
                        \cup {1 + BruteForceMaximum(g, avail \ {v, u}) :
                                 u \in Neighbours(g, v) \cap avail})

RECURSIVE AlternatingReach(_, _, _)
\* The left vertices reachable from `reached` along alternating paths: an
\* unmatched edge to a right vertex, then its matching edge back.
AlternatingReach(g, mt, reached) ==
    LET more == {mt[u] : u \in {x \in UNION {Neighbours(g, v) : v \in reached} :
                                  x \in DOMAIN mt}}
    IN  IF more \subseteq reached THEN reached
        ELSE AlternatingReach(g, mt, reached \cup more)

\* An augmenting path relative to mt: an alternating path from an unmatched
\* vertex of `side` to an unmatched vertex of the other side.
AugmentingPathExists(g, mt, side) ==
    \E v \in AlternatingReach(g, mt, side \ DOMAIN mt) :
       \E u \in Neighbours(g, v) : u \notin DOMAIN mt

\* hopcroft_karp_matching has just returned `matches` for the graph G.
EngineReturned == pc \in {"hk_returned", "peel"}

\* C5: the matching returned for any bipartite graph has as many pairs as the
\* largest matching found by brute force, and admits no augmenting path.
C5_MaximumCardinality ==
    EngineReturned =>
      /\ Cardinality(MatchedPairs(matches)) = BruteForceMaximum(G, DOMAIN G)
      /\ ~AugmentingPathExists(G, matches, left)

\* Vertex 0 is matched first, to its first neighbour; it ends with another
\* partner only when an augmenting path of a later phase rerouted it.
C5_Witness ==
    /\ pc = "hk_returned"
    /\ Cardinality(MatchedPairs(matches)) = 3
    /\ 0 \in DOMAIN matches /\ matches[0] # G[0][1]

\* C6: the dictionary returned for any bipartite graph is symmetric, pairs
\* only the two ends of an edge between a left and a right vertex, gives no
\* vertex two partners, has no None and no unmatched or isolated vertex among
\* its keys, and is empty for an edgeless graph.
C6_WellFormedMatching ==
    EngineReturned =>
      /\ DOMAIN matches \subseteq DOMAIN G
      /\ \A v \in DOMAIN matches :
            /\ matches[v] # NONE
            /\ matches[v] \in DOMAIN matches
            /\ matches[matches[v]] = v
            /\ matches[v] \in Neighbours(G, v)
            /\ (v \in left) # (matches[v] \in left)
            /\ (v \in right) # (matches[v] \in right)
      /\ \A v, w \in DOMAIN matches : matches[v] = matches[w] => v = w
      /\ \A v \in DOMAIN G : G[v] = <<>> => v \notin DOMAIN matches
      /\ (\A v \in DOMAIN G : G[v] = <<>>) => matches = <<>>

C6_Witness ==
    /\ pc = "hk_returned"
    /\ matches # <<>>
    /\ \E v \in DOMAIN G : G[v] = <<>>
    /\ \E v \in DOMAIN G : G[v] # <<>> /\ v \notin DOMAIN matches

\* The call is a decomposition of a matrix that is not square.
NonSquareCall == entry = "bvn" /\ NumRows(heap[D]) # NumCols(heap[D])

\* C7: a call with a non-square matrix goes from its entry to a ValueError
\* and nowhere else: no copy is made, no graph built, no matching run, no
\* pair stored and nothing returned.
C7_NonSquareRejected ==
    NonSquareCall =>
      /\ pc \in {"bvn_call", "raised"}
      /\ pc = "raised" => raised = "ValueError"
      /\ Len(heap) = 1
      /\ DriverUnset \/ (pc = "raised" /\ S = 0 /\ coefficients = <<>>
                            /\ permutations = <<>> /\ result = <<>>)
      /\ G = <<>>
      /\ EngineUnset

\* The input of test_non_square_matrix, rejected.
C7_Witness ==
    NonSquareCall /\ pc = "raised" /\ raised = "ValueError" /\ heap[D] = zeros(1, 2)

\* C8: no step of a decomposition changes the caller's matrix.
C8_InputNotMutated ==
    [][entry = "bvn" => (D' = D /\ heap'[D'] = heap[D])]_vars

\* The working copy has been peeled down to zero beside an untouched D.
C8_Witness ==
    /\ entry = "bvn" /\ pc = "returned"
    /\ Len(result) >= 2
    /\ S # D /\ AllZero(heap[S]) /\ ~AllZero(heap[D])

\* The permutation matrix with a 1 at (i, perm[i + 1]) for i in 0..3.
PermutationMatrix4(perm) ==
    [i \in 0..3 |-> [j \in 0..3 |-> IF perm[i + 1] = j THEN 1 ELSE 0]]

\* P1..P4 of test_birkhoff_von_neumann_decomposition.
ExpectedPermutations ==
    {PermutationMatrix4(<<3, 2, 1, 0>>), PermutationMatrix4(<<0, 1, 2, 3>>),
     PermutationMatrix4(<<1, 0, 3, 2>>), PermutationMatrix4(<<1, 2, 0, 3>>)}

\* C9: the matrix of the test decomposes, without an error, into exactly 4
\* pairs: coefficients 1/6, 1/6, 1/3, 1/3 (numerators 1, 1, 2, 2 over 6), the
\* four expected permutation matrices, and a weighted sum equal to D.
C9_TestDecomposition ==
    (entry = "bvn" /\ heap[D] = TestD) =>
      /\ pc # "raised"
      /\ pc = "returned" =>
           /\ Len(result) = 4
           /\ Cardinality({k \in 1..Len(result) : result[k][1] = 1}) = 2
           /\ Cardinality({k \in 1..Len(result) : result[k][1] = 2}) = 2
           /\ {result[k][2] : k \in 1..Len(result)} = ExpectedPermutations
           /\ WeightedSum(result, 4) = TestD

C9_Witness == entry = "bvn" /\ heap[D] = TestD /\ pc = "returned" /\ Len(result) = 4

\* C10: on a doubly stochastic input, every subtraction of q * P zeroes an
\* entry that was nonzero, leaves the zero entries zero and makes no entry
\* negative, so there are strictly fewer nonzero entries after it than before,
\* and no more than n squared subtractions happen.
C10_StrictDecrease ==
    [][(DSCall /\ pc = "peel") =>
         LET A == heap[S]
             B == heap'[S']
         IN  /\ pc' = "while"
             /\ \E c \in Cells(A) : A[c[1]][c[2]] # 0 /\ B[c[1]][c[2]] = 0
             /\ \A c \in Cells(A) : A[c[1]][c[2]] = 0 => B[c[1]][c[2]] = 0
             /\ \A c \in Cells(A) : B[c[1]][c[2]] >= 0
             /\ Cardinality(NonZeroCells(B)) < Cardinality(NonZeroCells(A))
             /\ Len(coefficients') = Len(coefficients) + 1
             /\ Len(coefficients') <= Dim * Dim]_vars

\* In the middle of the loop: two subtractions done, entries left.
C10_Witness ==
    DSCall /\ pc = "while" /\ Len(coefficients) >= 2 /\ ~AllZero(heap[S])

\* The matching held by leftmatches and rightmatches in the middle of a run.
CurrentMatching == combine(strip_none(leftmatches), strip_none(rightmatches))

\* C11: a call of breadth_first_search returns true exactly when an
\* unmatched right vertex is reachable from an unmatched left vertex along an
\* alternating path; when it returns false distances[None] is still
\* infinite; and it leaves the queue empty.
C11_BfsIffAugmentingPath ==
    [][pc = "bfs" =>
         /\ pc' \in {"dfs", "strip"}
         /\ (pc' = "dfs") <=> AugmentingPathExists(G, CurrentMatching, left)
         /\ (pc' = "dfs") <=> (distances'[NONE] # INFINITY)
         /\ (pc' = "strip") => (distances'[NONE] = INFINITY)
         /\ queue' = <<>>]_vars

\* A later phase has just found an augmenting path of three edges: the
\* first unmatched right vertex lies behind a matched left vertex.
C11_Witness ==
    /\ pc = "dfs" /\ todo = AscSeq(left)
    /\ distances[NONE] = 2
    /\ queue = <<>>
    /\ CurrentMatching # <<>>

\* C12: no step of the for loop unmatches a vertex, and each success adds one
\* pair; every iteration of the outer loop whose breadth_first_search returned
\* true ends with more matched pairs than it began with; such iterations
\* number at most min(|left|, |right|); and hopcroft_karp_matching returns.
C12_PhasesGain ==
    /\ [][(pc = "dfs" /\ todo # <<>>) =>
            /\ Matched(leftmatches) \subseteq Matched(leftmatches')
            /\ Matched(rightmatches) \subseteq Matched(rightmatches')
            /\ num_matched_pairs' - num_matched_pairs \in {0, 1}
            /\ Cardinality(Matched(leftmatches')) - Cardinality(Matched(leftmatches))
                  = num_matched_pairs' - num_matched_pairs
            /\ Cardinality(Matched(rightmatches')) = Cardinality(Matched(leftmatches'))]_vars
    /\ []((pc = "dfs" /\ todo = <<>>) =>
             Cardinality(Matched(leftmatches)) > phase_start)
    /\ [](phases <= Min(Cardinality(left), Cardinality(right)))
    /\ (pc = "hk_call") ~> EngineReturned

\* The second successful iteration of the outer loop has just ended.
C12_Witness ==
    /\ pc = "dfs" /\ todo = <<>>
    /\ phases = 2 /\ phase_start >= 1
    /\ Cardinality(Matched(leftmatches)) > phase_start

\* The bipartite graph of the nonzero entries of A.
SupportGraph(A) == from_numpy_matrix(to_bipartite_matrix(to_pattern_matrix(A)))

\* The call is a decomposition of a square nonnegative matrix that is not
\* doubly stochastic and whose support graph has no perfect matching.
NoPerfectMatchingCall ==
    /\ entry = "bvn"
    /\ NumRows(heap[D]) = NumCols(heap[D])
    /\ \A c \in Cells(heap[D]) : heap[D][c[1]][c[2]] >= 0
    /\ ~IsDoublyStochastic(heap[D])
    /\ \E g \in {SupportGraph(heap[D])} : BruteForceMaximum(g, DOMAIN g) < Dim

\* The number of ones of the matrix P.
NumOnes(P) == Cardinality({c \in Cells(P) : P[c[1]][c[2]] = 1})

\* C13 as stated, on the inputs of the kind that have a nonzero entry: no
\* error is raised, and the result holds a matrix with fewer than n ones and
\* has a weighted sum other than the input.  (The zero matrix is of the kind
\* too: it returns the empty list, which fails both parts.)
C13_AsStated ==
    (pc \in {"raised", "returned"} /\ ~AllZero(heap[D]) /\ NoPerfectMatchingCall) =>
      /\ pc = "returned"
      /\ \E k \in 1..Len(result) : NumOnes(result[k][2]) < Dim
      /\ WeightedSum(result, Dim) # heap[D]

\* C13, amended: on such an input no error is raised and the call returns;
\* the weighted sum of the returned pairs equals the input; the zero matrix
\* gives the empty list, and any other input a list in which some matrix has
\* fewer than n ones.
C13_DegenerateDecomposition ==
    /\ []((pc \in {"raised", "returned"} /\ NoPerfectMatchingCall) =>
            /\ pc = "returned"
            /\ raised = "none"
            /\ WeightedSum(result, Dim) = heap[D]
            /\ AllZero(heap[D]) => result = <<>>
            /\ ~AllZero(heap[D]) =>
                  \E k \in 1..Len(result) : NumOnes(result[k][2]) < Dim)
    /\ (pc = "bvn_call" /\ NoPerfectMatchingCall) ~> (pc = "returned")

\* A nonzero input of the kind has been decomposed into two matrices, the
\* first with fewer than n ones, that sum to it.
C13_Witness ==
    /\ NoPerfectMatchingCall /\ pc = "returned"
    /\ Len(result) >= 2
    /\ NumOnes(result[1][2]) < Dim
    /\ WeightedSum(result, Dim) = heap[D]

=============================================================================
